---- MODULE Spec2Model ----
\* Model of court_case/app.py: the POST /api/search handler, the three tables it
\* writes (CaseQuery, CaseData, CaseOrder), the court scrapers' mock data
\* generator and the analytics engine.
EXTENDS Integers, Sequences, FiniteSets, TLC

\* ---------------------------------------------------------------------------
\* Bounds of the model
\* ---------------------------------------------------------------------------
\* number of search requests, all of which may be in flight at once
MaxRequests == 2
\* number of outcomes of the random generator that are explored
MaxPick == 2
\* number of rows of the query log the statistics are computed over
MaxRows == 5

\* ---------------------------------------------------------------------------
\* JSON values of the request body and Python text
\* ---------------------------------------------------------------------------
\* A JSON value: null (also an absent key: dict.get gives None), a string (its
\* characters), or a number.
JNull == [t |-> "null", s |-> <<>>, n |-> 0]
JStr(chars) == [t |-> "str", s |-> chars, n |-> 0]
JNum(k) == [t |-> "num", s |-> <<>>, n |-> k]

RECURSIVE Join(_)
\* the text made of a sequence of characters
Join(chars) == IF chars = <<>> THEN "" ELSE Head(chars) \o Join(Tail(chars))

\* str.upper() on one character (the letters the inputs use)
UpperChar(c) ==
    CASE c = "a" -> "A" [] c = "b" -> "B" [] c = "c" -> "C" [] c = "d" -> "D"
      [] c = "e" -> "E" [] c = "f" -> "F" [] c = "g" -> "G" [] c = "h" -> "H"
      [] c = "i" -> "I" [] c = "j" -> "J" [] c = "k" -> "K" [] c = "l" -> "L"
      [] c = "m" -> "M" [] c = "n" -> "N" [] c = "o" -> "O" [] c = "p" -> "P"
      [] c = "q" -> "Q" [] c = "r" -> "R" [] c = "s" -> "S" [] c = "t" -> "T"
      [] c = "u" -> "U" [] c = "v" -> "V" [] c = "w" -> "W" [] c = "x" -> "X"
      [] c = "y" -> "Y" [] c = "z" -> "Z" [] OTHER -> c

\* str.upper()
Upper(chars) == [i \in 1..Len(chars) |-> UpperChar(chars[i])]

\* the text an f-string puts for a value: format(None) is "None"
Fmt(v) ==
    CASE v.t = "str" -> Join(v.s)
      [] v.t = "num" -> ToString(v.n)
      [] OTHER -> "None"

DigitChars == <<"0", "1", "2", "3", "4", "5", "6", "7", "8", "9">>

IsDigit(c) == \E i \in 1..10 : DigitChars[i] = c

DigitVal(c) == (CHOOSE i \in 1..10 : DigitChars[i] = c) - 1

RECURSIVE DecimalVal(_)
\* the number a sequence of digits writes
DecimalVal(chars) ==
    IF chars = <<>> THEN 0
    ELSE 10 * DecimalVal(SubSeq(chars, 1, Len(chars) - 1)) + DigitVal(chars[Len(chars)])

\* int(x) succeeds: a number, or a non-empty string of digits; int(None) raises
\* TypeError and int('abc') raises ValueError
IntOk(v) ==
    \/ v.t = "num"
    \/ v.t = "str" /\ v.s # <<>> /\ \A i \in 1..Len(v.s) : IsDigit(v.s[i])

\* int(x) where it succeeds
IntOf(v) == IF v.t = "num" THEN v.n ELSE DecimalVal(v.s)

\* ---------------------------------------------------------------------------
\* BaseScraper.generate_mock_data and the court scrapers
\* ---------------------------------------------------------------------------
case_types ==
    [civil |-> "Civil Suit", criminal |-> "Criminal Case", writ |-> "Writ Petition",
     appeal |-> "Civil Appeal", revision |-> "Civil Revision",
     bail |-> "Bail Application", pil |-> "Public Interest Litigation"]

petitioners ==
    <<"Rajesh Kumar & Associates", "Priya Enterprises Pvt. Ltd.", "State of Delhi",
      "Municipal Corporation", "ABC Manufacturing Co.", "XYZ Corporation",
      "Local Authority", "Private Individual">>

respondents ==
    <<"Union of India", "State Government", "XYZ Corporation", "Local Authority",
      "Private Individual", "Municipal Corporation", "State of Delhi">>

judges ==
    <<"Hon'ble Justice A.K. Sharma", "Hon'ble Justice P.R. Mehta",
      "Hon'ble Justice S.K. Singh", "Hon'ble Justice R.N. Patel",
      "Hon'ble Justice M.S. Kumar", "Hon'ble Justice Priya Singh",
      "Hon'ble Justice R.K. Gupta">>

statuses == <<"pending", "disposed">>

order_descriptions ==
    <<"Notice issued to respondents. Matter adjourned to next date of hearing.",
      "Counter affidavit filed by respondents. Rejoinder affidavit to be filed within two weeks.",
      "Interim relief granted. Respondents restrained from taking any coercive action.",
      "Matter heard at length. Judgment reserved for pronouncement.",
      "Petition allowed. Respondents directed to comply with the directions within four weeks.",
      "Matter disposed of in terms of the settlement reached between parties.",
      "Interim application disposed of. Main matter to be listed for final hearing.",
      "Notice of motion disposed of. Main petition to be heard on merits.",
      "Bail application allowed. Petitioner directed to furnish surety bonds.",
      "Revision petition dismissed. Lower court order upheld.",
      "Appeal admitted. Stay granted on the impugned order.",
      "Writ petition disposed of with directions to the authorities.">>

\* One outcome of the random generator: draw k selects the k-th entry of each
\* table (random.choice) and the k-th value of each range (random.randint).
Draws == 1..MaxPick

Choice(tbl, k) == tbl[((k - 1) % Len(tbl)) + 1]

RandInt(lo, hi, k) == lo + ((k - 1) % (hi - lo + 1))

\* case_types.get(case_type, 'Civil Suit'): a key that is no string of the
\* table (None and numbers included) gives the default
TypeLabel(case_type) ==
    IF case_type.t = "str" /\ Join(case_type.s) \in DOMAIN case_types
    THEN case_types[Join(case_type.s)]
    ELSE "Civil Suit"

\* generate_mock_data raises: case_type.upper() on a value that is no string
\* (AttributeError), in the branch of the courts that are none of the three
MockRaises(case_type, court_name) ==
    /\ court_name \notin {"delhi-high", "supreme", "bombay-high"}
    /\ case_type.t # "str"

\* the text of that exception, str(e)
MockError(case_type) ==
    IF case_type.t = "null" THEN "'NoneType' object has no attribute 'upper'"
    ELSE "'int' object has no attribute 'upper'"

\* the case-number label generate_mock_data builds
CaseNum(case_type, case_number, filing_year, court_name) ==
    CASE court_name = "delhi-high" ->
            TypeLabel(case_type) \o " " \o Fmt(case_number) \o "/" \o ToString(filing_year)
      [] court_name = "supreme" ->
            "Civil Appeal No. " \o Fmt(case_number) \o " of " \o ToString(filing_year)
      [] court_name = "bombay-high" ->
            "Writ Petition No. " \o Fmt(case_number) \o " of " \o ToString(filing_year)
      [] OTHER ->
            Join(Upper(case_type.s)) \o "/" \o Fmt(case_number) \o "/" \o ToString(filing_year)

\* case_data of generate_mock_data under draw k; dates are <<year, month, day>>
MockCaseData(case_type, case_number, filing_year, court_name, k) ==
    [case_number |-> CaseNum(case_type, case_number, filing_year, court_name),
     petitioner |-> Choice(petitioners, k),
     respondent |-> Choice(respondents, k),
     filing_date |-> <<filing_year, RandInt(1, 12, k), RandInt(1, 28, k)>>,
     next_hearing |-> <<2025, RandInt(8, 12, k), RandInt(1, 28, k)>>,
     status |-> Choice(statuses, k),
     judge |-> Choice(judges, k)]

\* orders of generate_mock_data under draw k
MockOrders(case_data, k) ==
    <<[date |-> <<2025, 7, RandInt(1, 30, k)>>,
       description |-> Choice(order_descriptions, k)],
      [date |-> case_data.filing_date,
       description |-> "Petition filed. Urgent hearing requested."]>>

\* time.sleep of each scraper, in ms: the fixed part plus random.uniform(lo, hi);
\* response_time_ms is the elapsed time, int((time.time() - start_time) * 1000)
SleepRange(court_name) ==
    CASE court_name = "delhi-high" -> <<2500, 3500>>
      [] court_name = "supreme" -> <<2000, 2500>>
      [] court_name = "bombay-high" -> <<2300, 3000>>
      [] OTHER -> <<1500, 2000>>

ResponseTime(court_name, k) ==
    RandInt(SleepRange(court_name)[1], SleepRange(court_name)[2], (k - 1) * 333 + 1)

\* The court name a scraper hands to generate_mock_data: a literal for the three
\* court scrapers, f'{self.district}-district' for ECourtsScraper.
ScraperCourtName(court, district) ==
    IF court \in {"delhi-high", "supreme", "bombay-high"} THEN court
    ELSE district \o "-district"

\* scrape_case_data: (result, None), or (None, str(e)) when the generator raises
ScrapeCaseData(court_name, case_type, case_number, filing_year, k) ==
    IF MockRaises(case_type, court_name)
    THEN [ok |-> FALSE, error |-> MockError(case_type)]
    ELSE LET cd == MockCaseData(case_type, case_number, filing_year, court_name, k)
         IN [ok |-> TRUE,
             case_data |-> cd,
             orders |-> MockOrders(cd, k),
             response_time_ms |-> ResponseTime(court_name, k)]

\* ---------------------------------------------------------------------------
\* CaseAnalytics
\* ---------------------------------------------------------------------------
\* NULL in an integer column
NullInt == -1

RECURSIVE SumResponseTime(_)
SumResponseTime(rows) ==
    IF rows = {} THEN 0
    ELSE LET row == CHOOSE x \in rows : TRUE
         IN row.response_time_ms + SumResponseTime(rows \ {row})

\* the rate cut to a tenth instead of rounded
TruncatedRate(num, den) == (1000 * num) \div den

\* round(num / den * 100, 1) in tenths: Python rounds to the nearest tenth, and
\* a tie to the even one
RoundedRate(num, den) ==
    LET q == (1000 * num) \div den
        rem == (1000 * num) % den
    IN  IF 2 * rem > den \/ (2 * rem = den /\ q % 2 = 1) THEN q + 1 ELSE q

\* get_dashboard_stats; success_rate is in tenths of a percent (750 is 75.0)
get_dashboard_stats(rows, day) ==
    LET todays == {row \in rows : row.query_timestamp >= day}
        successful == {row \in todays : row.success}
        timed == {row \in successful : row.response_time_ms # NullInt}
        total_searches == Cardinality(todays)
        successful_searches == Cardinality(successful)
    IN  [total_searches |-> total_searches,
         success_rate |->
            IF total_searches > 0 THEN RoundedRate(successful_searches, total_searches)
            ELSE 0,
         avg_response_time |->
            IF timed = {} THEN 0
            ELSE SumResponseTime(timed) \div Cardinality(timed)]

\* no answer of GET /api/stats yet
NoStats == [total_searches |-> NullInt, success_rate |-> NullInt,
            avg_response_time |-> NullInt]

\* predict_case_outcome: favorable_probability in hundredths
case_age_days == 100

\* case_data.get('case_type', 'civil')

CaseTypeOf(case_data) ==
    IF "case_type" \in DOMAIN case_data THEN case_data.case_type ELSE "civil"

Min(a, b) == IF a < b THEN a ELSE b

predict_case_outcome(case_data, court_load) ==
    LET case_type == CaseTypeOf(case_data)
        s1 == 50 + (IF case_age_days > 365 THEN 20 ELSE 0)
        s2 == s1 + (IF case_type \in {"bail", "writ"} THEN 10 ELSE 0)
        score == s2 + (IF court_load < 100 THEN 10 ELSE 0)
    IN  Min(score, 95)

\* values of random.randint(50, 200) on both sides of the test court_load < 100
CourtLoads == {99, 100}

\* ---------------------------------------------------------------------------
\* State
\* ---------------------------------------------------------------------------
VARIABLES
    reqs,       \* the search requests: position in search_case and its locals
    cases,      \* committed rows of CaseData
    orders,     \* committed rows of CaseOrder
    logs,       \* committed rows of CaseQuery
    writer,     \* the request whose open transaction holds the database's write lock, or 0
    district,   \* ecourts_scraper.district
    today,      \* the current day (timestamps are days)
    stats       \* the last answer of GET /api/stats

vars == <<reqs, cases, orders, logs, writer, district, today, stats>>

store == <<cases, orders, logs>>

Requests == 1..MaxRequests

SupportedCourts ==
    {"delhi-high", "supreme", "bombay-high", "delhi-district", "faridabad-district"}

\* request bodies that are explored: {court, case_type, case_number, filing_year}
Writ == JStr(<<"w", "r", "i", "t">>)

Body(court, case_type, case_number, filing_year) ==
    [court |-> court, case_type |-> case_type, case_number |-> case_number,
     filing_year |-> filing_year]

Bodies ==
    {Body("delhi-district", Writ, JStr(<<"1", "2", "3">>), JStr(<<"2", "0", "2", "3">>)),
     Body("faridabad-district", Writ, JStr(<<"1", "2", "3">>), JNum(2023)),
     Body("delhi-high", Writ, JStr(<<"1", "2", "3">>), JNum(2023)),
     Body("delhi-high", Writ, JStr(<<"1", "2", "3">>), JNum(99)),
     Body("delhi-high", JNull, JStr(<<"1", "2", "3">>), JNum(2023)),
     Body("delhi-district", JNum(5), JStr(<<"1", "2", "3">>), JNum(2023)),
     Body("faridabad-district", JNull, JStr(<<"1", "2", "3">>), JNum(2023)),
     Body("madras-high", Writ, JStr(<<"1", "2", "3">>), JNum(2023)),
     Body("delhi-high", Writ, JStr(<<"1", "2", "3">>), JNull),
     Body("madras-high", Writ, JStr(<<"1", "2", "3">>), JStr(<<"a", "b", "c">>))}

NoCaseData ==
    [case_number |-> "", petitioner |-> "", respondent |-> "", filing_date |-> <<>>,
     next_hearing |-> <<>>, status |-> "", judge |-> ""]

\* result, error of scrape_case_data before the call
NoResult ==
    [ok |-> FALSE, error |-> "", case_data |-> NoCaseData, orders |-> <<>>,
     response_time_ms |-> NullInt]

NoResponse == [status |-> 0, error |-> "", favorable_probability |-> 0]

IdleRequest ==
    [pc |-> "idle", court |-> "", case_type |-> JNull, case_number |-> JNull,
     year_field |-> JNull, filing_year |-> 0, result |-> NoResult, existing |-> FALSE,
     court_name |-> "", new_case |-> {}, case_id |-> 0, query_id |-> 0,
     resp |-> NoResponse]

Init ==
    /\ reqs = [r \in Requests |-> IdleRequest]
    /\ cases = {}
    /\ orders = {}
    /\ logs = {}
    /\ writer = 0
    /\ district = "faridabad"
    /\ today = 1
    /\ stats = NoStats

\* ---------------------------------------------------------------------------
\* The persistence layer: SQLAlchemy session over the database
\* ---------------------------------------------------------------------------
\* the next value of an integer primary key
NextId(rows) == IF rows = {} THEN 1 ELSE 1 + CHOOSE i \in {x.id : x \in rows} :
                                              \A y \in rows : y.id <= i

\* CaseData.query.filter_by(case_number=...).first() is not None
ExistingCase(label) == \E c \in cases : c.case_number = label

\* a table without the unique constraint
NoUniqueViolation(label) == FALSE

\* unique=True on CaseData.case_number: the INSERT of a second row is refused
UniqueViolation(label) == \E c \in cases : c.case_number = label

\* nullable=False on the columns of CaseQuery: the INSERT is refused
NotNullViolation(q) ==
    \/ q.case_type.t = "null"
    \/ q.case_number.t = "null"

\* datetime.strptime(text, '%Y-%m-%d') accepts the text f'{year}-{m:02d}-{d:02d}':
\* %Y is four digits
DateParses(date) == date[1] >= 1000 /\ date[1] <= 9999

\* another request's open transaction holds the write lock
Locked(r) == writer # 0 /\ writer # r

\* the CaseQuery row of request r
QueryRecord(r, id, success) ==
    [id |-> id,
     court_name |-> reqs[r].court,
     case_type |-> reqs[r].case_type,
     case_number |-> reqs[r].case_number,
     filing_year |-> reqs[r].filing_year,
     query_timestamp |-> today,
     success |-> success,
     response_time_ms |-> IF success THEN reqs[r].result.response_time_ms ELSE NullInt,
     raw_response |-> IF success THEN "" ELSE reqs[r].result.error,
     parsed_data |-> IF success THEN reqs[r].result ELSE NoResult]

\* the CaseData row of request r
NewCase(r, id) ==
    LET cd == reqs[r].result.case_data
    IN  [id |-> id,
         case_number |-> cd.case_number,
         court_name |-> reqs[r].court,
         petitioner |-> cd.petitioner,
         respondent |-> cd.respondent,
         filing_date |-> cd.filing_date,
         next_hearing_date |-> cd.next_hearing,
         case_status |-> cd.status,
         judge_name |-> cd.judge,
         last_updated |-> today]

\* the orders reference the id after the new case's
OrderCaseIdNext(new_case) == new_case.id + 1

\* case_id of the CaseOrder rows of a new case
OrderCaseId(new_case) == new_case.id

\* the CaseOrder rows of request r, numbered from id
NewOrders(r, new_case, id) ==
    LET os == reqs[r].result.orders
    IN  {[id |-> id + i - 1,
          case_id |-> OrderCaseId(new_case),
          order_date |-> os[i].date,
          order_description |-> os[i].description] : i \in 1..Len(os)}

\* a flush that commits the row
FlushedAutocommit(new_case) == {new_case}

\* what readers see of a flushed, uncommitted CaseData row: nothing
FlushedVisible(new_case) == {}

\* the response of the except branch of search_case
InternalError == [status |-> 500, error |-> "Internal server error", favorable_probability |-> 0]

\* the request ends; the session is removed with the request, which rolls back an
\* open transaction
Finish(r, resp) ==
    reqs' = [reqs EXCEPT ![r].pc = "done", ![r].resp = resp, ![r].new_case = {}]

\* ---------------------------------------------------------------------------
\* POST /api/search
\* ---------------------------------------------------------------------------
\* search_case up to the scraper's sleep: read the body, int(filing_year), build
\* the query record, choose the scraper. Requests are numbered in arrival order.
Receive(r) ==
    /\ reqs[r].pc = "idle"
    /\ IF r = 1 THEN TRUE ELSE reqs[r - 1].pc # "idle"
    /\ \E data \in Bodies :
        LET got == [reqs[r] EXCEPT !.court = data.court, !.year_field = data.filing_year]
        IN  IF ~IntOk(data.filing_year)
            THEN \* int(filing_year) raises: the except branch answers
                 /\ reqs' = [reqs EXCEPT ![r] = [got EXCEPT !.pc = "done",
                                                            !.resp = InternalError]]
                 /\ UNCHANGED district
            ELSE IF data.court \notin SupportedCourts
            THEN \* no scraper for the court
                 /\ reqs' = [reqs EXCEPT ![r] =
                        [got EXCEPT !.filing_year = IntOf(data.filing_year),
                                    !.pc = "done",
                                    !.resp = [status |-> 400,
                                              error |-> "Unsupported court selected",
                                              favorable_probability |-> 0]]]
                 /\ UNCHANGED district
            ELSE /\ reqs' = [reqs EXCEPT ![r] =
                        [got EXCEPT !.case_type = data.case_type,
                                    !.case_number = data.case_number,
                                    !.filing_year = IntOf(data.filing_year),
                                    !.pc = "scrape"]]
                 /\ district' = CASE data.court = "delhi-district" -> "delhi"
                                  [] data.court = "faridabad-district" -> "faridabad"
                                  [] OTHER -> district
    /\ UNCHANGED <<cases, orders, logs, writer, today, stats>>

\* scrape_case_data after its sleep, under one outcome of the random generator
Scrape(r) ==
    /\ reqs[r].pc = "scrape"
    /\ \E k \in Draws :
        LET q == reqs[r]
            got == ScrapeCaseData(ScraperCourtName(q.court, district), q.case_type,
                                  q.case_number, q.filing_year, k)
        IN  reqs' = [reqs EXCEPT
                ![r].court_name = ScraperCourtName(q.court, district),
                ![r].result = IF got.ok
                              THEN [ok |-> TRUE, error |-> "", case_data |-> got.case_data,
                                    orders |-> got.orders,
                                    response_time_ms |-> got.response_time_ms]
                              ELSE [NoResult EXCEPT !.error = got.error],
                ![r].pc = IF got.ok THEN "lookup" ELSE "error"]
    /\ UNCHANGED <<cases, orders, logs, writer, district, today, stats>>

\* if error: the query record is added and committed, the error text is returned
LogError(r) ==
    /\ reqs[r].pc = "error"
    /\ ~Locked(r)
    /\ LET q == QueryRecord(r, NextId(logs), FALSE)
       IN  IF NotNullViolation(q)
           THEN /\ Finish(r, InternalError)
                /\ UNCHANGED logs
           ELSE /\ logs' = logs \cup {q}
                /\ reqs' = [reqs EXCEPT ![r].pc = "done", ![r].query_id = q.id,
                                ![r].resp = [status |-> 500, error |-> reqs[r].result.error,
                                             favorable_probability |-> 0]]
    /\ UNCHANGED <<cases, orders, writer, district, today, stats>>

\* existing_case = CaseData.query.filter_by(case_number=...).first()
Lookup(r) ==
    /\ reqs[r].pc = "lookup"
    /\ reqs' = [reqs EXCEPT
            ![r].existing = ExistingCase(reqs[r].result.case_data.case_number),
            ![r].pc = IF ExistingCase(reqs[r].result.case_data.case_number)
                      THEN "commit" ELSE "insert"]
    /\ UNCHANGED <<cases, orders, logs, writer, district, today, stats>>

\* if not existing_case: the new case is added and flushed, its orders are added
Insert(r) ==
    /\ reqs[r].pc = "insert"
    /\ LET cd == reqs[r].result.case_data
           nc == NewCase(r, NextId(cases))
       IN  IF ~DateParses(cd.filing_date)
           THEN /\ Finish(r, InternalError)
                /\ UNCHANGED <<cases, writer>>
           ELSE /\ ~Locked(r)
                /\ IF UniqueViolation(cd.case_number)
                   THEN /\ Finish(r, InternalError)
                        /\ UNCHANGED <<cases, writer>>
                   ELSE /\ reqs' = [reqs EXCEPT ![r].new_case = {nc}, ![r].case_id = nc.id,
                                                ![r].pc = "commit"]
                        /\ cases' = cases \cup FlushedVisible(nc)
                        /\ writer' = r
    /\ UNCHANGED <<orders, logs, district, today, stats>>

\* a commit that also writes the fresh case data over the stored row of its label
RefreshedCases(r) ==
    IF reqs[r].existing
    THEN {IF c.case_number = reqs[r].result.case_data.case_number
          THEN NewCase(r, c.id) ELSE c : c \in cases}
    ELSE cases \cup reqs[r].new_case

\* the CaseData rows after the commit: the stored ones and the request's new case,
\* if it made one (if not existing_case); a stored row is never written
CommittedCases(r) == cases \cup reqs[r].new_case

\* db.session.add(query_record); db.session.commit(); the prediction; the answer
Commit(r) ==
    /\ reqs[r].pc = "commit"
    /\ ~Locked(r)
    /\ LET q == QueryRecord(r, NextId(logs), TRUE)
       IN  IF NotNullViolation(q)
           THEN /\ Finish(r, InternalError)
                /\ UNCHANGED store
           ELSE /\ \E court_load \in CourtLoads :
                     reqs' = [reqs EXCEPT
                        ![r].pc = "done", ![r].query_id = q.id, ![r].new_case = {},
                        ![r].resp = [status |-> 200, error |-> "",
                                     favorable_probability |->
                                        predict_case_outcome(reqs[r].result.case_data,
                                                             court_load)]]
                /\ cases' = CommittedCases(r)
                /\ orders' = orders \cup
                        UNION {NewOrders(r, nc, NextId(orders)) : nc \in reqs[r].new_case}
                /\ logs' = logs \cup {q}
    /\ writer' = IF writer = r THEN 0 ELSE writer
    /\ UNCHANGED <<district, today, stats>>

\* the database's busy timeout runs out while another request's transaction holds
\* the write lock: the INSERT raises OperationalError
LockTimeout(r) ==
    /\ reqs[r].pc \in {"insert", "commit", "error"}
    /\ reqs[r].pc = "insert" => DateParses(reqs[r].result.case_data.filing_date)
    /\ Locked(r)
    /\ Finish(r, InternalError)
    /\ UNCHANGED <<cases, orders, logs, writer, district, today, stats>>

\* GET /api/stats
GetStats ==
    /\ stats' = get_dashboard_stats(logs, today)
    /\ UNCHANGED <<reqs, cases, orders, logs, writer, district, today>>

Next ==
    \/ \E r \in Requests : Receive(r)
    \/ \E r \in Requests : Scrape(r)
    \/ \E r \in Requests : LogError(r)
    \/ \E r \in Requests : Lookup(r)
    \/ \E r \in Requests : Insert(r)
    \/ \E r \in Requests : Commit(r)
    \/ \E r \in Requests : LockTimeout(r)

Spec == Init /\ [][Next]_vars

\* ---------------------------------------------------------------------------
\* The handler alone: one call of a scraper for each supported court and each
\* request, as search_case makes it
\* ---------------------------------------------------------------------------
HandlerCaseTypes ==
    {Writ, JStr(<<"b", "a", "i", "l">>),
     JStr(<<"t", "a", "x">>), JNum(5), JNull}

HandlerCaseNumbers == {JStr(<<"1", "2", "3">>), JStr(<<"7">>), JNull}

HandlerYears == {2023, 1999}

\* lines 429-439 of search_case and the scraper it calls, without the sleep
Handle(r) ==
    /\ \A q \in Requests : reqs[q].pc = "idle"
    /\ \E court \in SupportedCourts, case_type \in HandlerCaseTypes,
          case_number \in HandlerCaseNumbers, year \in HandlerYears, k \in Draws :
        LET d == CASE court = "delhi-district" -> "delhi"
                   [] court = "faridabad-district" -> "faridabad"
                   [] OTHER -> district
            got == ScrapeCaseData(ScraperCourtName(court, d), case_type, case_number,
                                  year, k)
        IN  /\ district' = d
            /\ reqs' = [reqs EXCEPT
                    ![r].court = court, ![r].case_type = case_type,
                    ![r].case_number = case_number, ![r].filing_year = year,
                    ![r].pc = "handled",
                    ![r].court_name = ScraperCourtName(court, d),
                    ![r].result =
                        IF got.ok
                        THEN [ok |-> TRUE, error |-> "", case_data |-> got.case_data,
                              orders |-> got.orders,
                              response_time_ms |-> got.response_time_ms]
                        ELSE [NoResult EXCEPT !.error = got.error]]
    /\ UNCHANGED <<cases, orders, logs, writer, today, stats>>

NextHandler == \E r \in Requests : Handle(r)

SpecHandler == Init /\ [][NextHandler]_vars

\* ---------------------------------------------------------------------------
\* The statistics alone: GET /api/stats over a query log of up to MaxRows rows
\* ---------------------------------------------------------------------------
\* a row of the query log as search_case commits it: a failed search of a
\* district court (no response time), or a successful one
LogRow(id, day, success, ms) ==
    [id |-> id,
     court_name |-> "delhi-district",
     case_type |-> IF success THEN Writ ELSE JNum(5),
     case_number |-> JStr(<<"1", "2", "3">>),
     filing_year |-> 2023,
     query_timestamp |-> day,
     success |-> success,
     response_time_ms |-> IF success THEN ms ELSE NullInt,
     raw_response |-> IF success THEN "" ELSE MockError(JNum(5)),
     parsed_data |->
        IF success
        THEN LET got == ScrapeCaseData("delhi-district", Writ,
                                       JStr(<<"1", "2", "3">>), 2023, 1)
             IN  [ok |-> TRUE, error |-> "", case_data |-> got.case_data,
                  orders |-> got.orders, response_time_ms |-> ms]
        ELSE NoResult]

RowKinds ==
    {<<day, FALSE, NullInt>> : day \in 1..2}
        \cup {<<day, TRUE, ms>> : day \in 1..2, ms \in {1500, 2000}}

InitStats ==
    /\ reqs = [r \in Requests |-> IdleRequest]
    /\ cases = {}
    /\ orders = {}
    /\ \E n \in 0..MaxRows : \E kinds \in [1..n -> RowKinds] :
            logs = {LogRow(i, kinds[i][1], kinds[i][2], kinds[i][3]) : i \in 1..n}
    /\ writer = 0
    /\ district = "faridabad"
    /\ today = 2
    /\ stats = NoStats

NextStats == GetStats

SpecStats == InitStats /\ [][NextStats]_vars

\* ---------------------------------------------------------------------------
\* Properties
\* ---------------------------------------------------------------------------
Done(r) == reqs[r].pc = "done"

Label(r) == reqs[r].result.case_data.case_number

\* the committed CaseQuery rows of request r
OwnRows(r) == {q \in logs : q.id = reqs[r].query_id}

OrdersOf(rows, id) == {o \in rows : o.case_id = id}

GenericError(r) == reqs[r].resp = InternalError

UniqueLabels(rows) == \A c1, c2 \in rows : c1.case_number = c2.case_number => c1 = c2

\* C1: after any sequence of searches the store holds at most one CaseData row per
\* case-number label, and no step adds a CaseOrder row to a case that is already
\* stored: its number of orders is the same before and after.
C1_OneCasePerLabel ==
    [][/\ UniqueLabels(cases')
       /\ \A c \in cases :
            Cardinality(OrdersOf(orders', c.id)) = Cardinality(OrdersOf(orders, c.id))]_vars

\* a search that found its label stored has completed, and the case has its two orders
C1_Witness ==
    \E r \in Requests :
        /\ Done(r) /\ reqs[r].resp.status = 200 /\ reqs[r].existing
        /\ \E c \in cases : /\ c.case_number = Label(r)
                            /\ Cardinality(OrdersOf(orders, c.id)) = 2
        /\ Cardinality(logs) = 2

\* C2: a request for an unsupported court is answered with the "unsupported court"
\* error and has written a CaseQuery row of its own with success = false.
C2_UnsupportedCourtLogged ==
    \A r \in Requests :
        (Done(r) /\ IntOk(reqs[r].year_field) /\ reqs[r].court \notin SupportedCourts)
            => /\ reqs[r].resp.error = "Unsupported court selected"
               /\ \E q \in OwnRows(r) : ~q.success

\* the committed store is whole: a case has its two orders and the query row of the
\* search that created it, and a successful query row has its case
StoreWhole(cs, os, qs) ==
    /\ \A c \in cs :
        /\ Cardinality(OrdersOf(os, c.id)) = 2
        /\ \E q \in qs : /\ q.success
                         /\ q.court_name = c.court_name
                         /\ q.parsed_data.case_data.case_number = c.case_number
                         /\ q.parsed_data.case_data.petitioner = c.petitioner
    /\ \A q \in qs : q.success =>
            \E c \in cs : c.case_number = q.parsed_data.case_data.case_number

\* request r completes in this step and the store gains exactly its rows: one query
\* row, and either nothing else or one new case with its two orders
CommitsWhole(r) ==
    /\ ~Done(r)
    /\ reqs'[r].pc = "done"
    /\ \E q \in logs' \ logs :
        /\ logs' = logs \cup {q}
        /\ q.id = reqs'[r].query_id
        /\ \/ cases' = cases /\ orders' = orders
           \/ \E c \in cases' \ cases :
                /\ q.success
                /\ cases' = cases \cup {c}
                /\ c.case_number = Label(r)
                /\ orders \subseteq orders'
                /\ Cardinality(orders' \ orders) = 2
                /\ \A o \in orders' \ orders : o.case_id = c.id

\* C3: each search is atomic with respect to the store: the store changes only in
\* the step in which a request commits, which adds its query row and (for a new
\* case) its case and all its orders together; a request that ends with the
\* internal error leaves the store as it was, also after it has flushed its case.
C3_AtomicPerRequest ==
    [][/\ StoreWhole(cases', orders', logs')
       /\ store' # store => \E r \in Requests : CommitsWhole(r)
       /\ \A r \in Requests :
            (~Done(r) /\ reqs'[r].pc = "done" /\ reqs'[r].resp = InternalError)
                => store' = store]_vars

\* a request has flushed its new case and then ended with the internal error, and
\* the store holds nothing
C3_Witness ==
    \E r \in Requests :
        /\ Done(r) /\ GenericError(r) /\ reqs[r].case_id # 0
        /\ cases = {} /\ orders = {} /\ logs = {}

\* the label each court's format gives
ExpectedLabel(court, case_type, case_number, filing_year) ==
    CASE court = "delhi-high" ->
            TypeLabel(case_type) \o " " \o Fmt(case_number) \o "/" \o ToString(filing_year)
      [] court = "supreme" ->
            "Civil Appeal No. " \o Fmt(case_number) \o " of " \o ToString(filing_year)
      [] court = "bombay-high" ->
            "Writ Petition No. " \o Fmt(case_number) \o " of " \o ToString(filing_year)
      [] court \in {"delhi-district", "faridabad-district"} ->
            Join(Upper(case_type.s)) \o "/" \o Fmt(case_number) \o "/" \o ToString(filing_year)

\* C4: for every supported court and every (case_type, case_number, filing_year) the
\* handler returns a result and no error, and the result's label has the court's
\* format.
C4_HandlerNeverFails ==
    \A r \in Requests :
        reqs[r].pc = "handled" =>
            /\ reqs[r].result.ok
            /\ reqs[r].result.error = ""
            /\ Label(r) = ExpectedLabel(reqs[r].court, reqs[r].case_type,
                                        reqs[r].case_number, reqs[r].filing_year)

\* C5: a request with a malformed or missing filing_year and a request for an
\* unsupported court get a 4xx status, and a 500 carries the generic body.
C5_ErrorsClassified ==
    \A r \in Requests :
        Done(r) =>
            /\ (~IntOk(reqs[r].year_field) \/ reqs[r].court \notin SupportedCourts)
                    => reqs[r].resp.status \in 400..499
            /\ reqs[r].resp.status = 500 => reqs[r].resp.error = "Internal server error"

\* C6: two requests that both looked their label up before either stored it (and
\* that nothing else makes fail) both succeed: one case with that label results, its
\* orders are stored once, and both have written their query row.
C6_ConflictIsNoOp ==
    \A r1, r2 \in Requests :
        (/\ r1 # r2 /\ Done(r1) /\ Done(r2)
         /\ reqs[r1].result.ok /\ reqs[r2].result.ok
         /\ Label(r1) = Label(r2)
         /\ ~reqs[r1].existing /\ ~reqs[r2].existing
         /\ \A r \in {r1, r2} : /\ reqs[r].case_type.t # "null"
                                /\ reqs[r].case_number.t # "null"
                                /\ DateParses(reqs[r].result.case_data.filing_date))
            => /\ reqs[r1].resp.status = 200 /\ reqs[r2].resp.status = 200
               /\ OwnRows(r1) # {} /\ OwnRows(r2) # {}
               /\ Cardinality({c \in cases : c.case_number = Label(r1)}) = 1
               /\ Cardinality(orders) = 2 * Cardinality(cases)

\* C7: every search request that has completed has exactly one CaseQuery row.
C7_OneRowPerRequest ==
    \A r \in Requests : Done(r) => Cardinality(OwnRows(r)) = 1

\* today's rows, as the claim counts them
Todays == {q \in logs : q.query_timestamp >= today}

TodaysSuccessful == {q \in Todays : q.success}

\* total_searches, success_rate and the zero cases of C8
StatsCountAndRate ==
    /\ stats.total_searches = Cardinality(Todays)
    /\ Todays = {} => stats.success_rate = 0 /\ stats.avg_response_time = 0
    /\ Todays # {} =>
        \* the rate is the tenth nearest to successes / total * 100
        LET diff == stats.success_rate * Cardinality(Todays)
                        - 1000 * Cardinality(TodaysSuccessful)
        IN  2 * diff <= Cardinality(Todays) /\ -2 * diff <= Cardinality(Todays)
    /\ (Cardinality(Todays) = 4 /\ Cardinality(TodaysSuccessful) = 3)
            => stats.success_rate = 750
    /\ TodaysSuccessful = {} => stats.avg_response_time = 0

\* C8 as stated: avg_response_time is the average response_time_ms of today's
\* successful rows.
C8_ExactAverage ==
    stats # NoStats =>
        /\ StatsCountAndRate
        /\ TodaysSuccessful # {} =>
            stats.avg_response_time * Cardinality(TodaysSuccessful)
                = SumResponseTime(TodaysSuccessful)

\* C8, amended: dashboard_stats() returns total_searches = the count of today's
\* rows, success_rate = successes/total*100 rounded to one decimal (0 without rows,
\* 75.0 for 3 of 4), and avg_response_time = the average response_time_ms of today's
\* successful rows cut to an integer (0 when there are none).
C8_DashboardStats ==
    stats # NoStats =>
        /\ StatsCountAndRate
        /\ TodaysSuccessful # {} =>
            LET n == Cardinality(TodaysSuccessful)
                sum == SumResponseTime(TodaysSuccessful)
            IN  /\ stats.avg_response_time * n <= sum
                /\ sum < (stats.avg_response_time + 1) * n

\* 3 of 4 rows of today are successful, the rate is 75.0 and the average is no integer
C8_Witness ==
    /\ stats # NoStats
    /\ Cardinality(Todays) = 4 /\ Cardinality(TodaysSuccessful) = 3
    /\ stats.success_rate = 750
    /\ SumResponseTime(TodaysSuccessful) % 3 # 0
    /\ stats.avg_response_time = SumResponseTime(TodaysSuccessful) \div 3
    /\ Cardinality(logs) > 4

\* C9: the favorable_probability of a successful search is at most 0.95, and at
\* least 0.6 when the request's case type is bail or writ.
C9_CaseTypeRaisesScore ==
    \A r \in Requests :
        (Done(r) /\ reqs[r].resp.status = 200) =>
            /\ reqs[r].resp.favorable_probability <= 95
            /\ (reqs[r].case_type.t = "str"
                    /\ Join(reqs[r].case_type.s) \in {"bail", "writ"})
                  => reqs[r].resp.favorable_probability >= 60

\* C10: every committed CaseOrder row's case_id is the id of a committed CaseData row.
C10_OrdersReferenceCases ==
    \A o \in orders : \E c \in cases : c.id = o.case_id

\* two cases are stored with their orders
C10_Witness == Cardinality(cases) = 2 /\ Cardinality(orders) = 4

\* C11: a successful search whose label is already stored leaves every stored
\* CaseData row as it is, in every field, and creates no CaseOrder row, also when
\* the case data it returns differs from the stored row; CaseOrder rows are created
\* only in the step in which their CaseData row is created.
C11_StoredCaseUntouched ==
    [][/\ cases \subseteq cases'
       /\ \A r \in Requests :
            (/\ ~Done(r) /\ reqs'[r].pc = "done"
             /\ reqs'[r].resp.status = 200 /\ reqs[r].existing)
                => cases' = cases /\ orders' = orders
       /\ \A o \in orders' \ orders :
            \E c \in cases' \ cases :
                /\ c.id = o.case_id
                /\ \E r \in Requests : /\ ~Done(r) /\ reqs'[r].pc = "done"
                                       /\ ~reqs[r].existing
                                       /\ reqs[r].case_id = c.id]_vars

\* a search has succeeded on a stored label with case data that differs from the
\* stored row, which still has its two orders
C11_Witness ==
    \E r \in Requests :
        /\ Done(r) /\ reqs[r].resp.status = 200 /\ reqs[r].existing
        /\ \E c \in cases :
            /\ c.case_number = Label(r)
            /\ c.petitioner # reqs[r].result.case_data.petitioner
            /\ c.court_name # reqs[r].court
            /\ Cardinality(OrdersOf(orders, c.id)) = 2
        /\ Cardinality(orders) = 2

\* C12: a request reads no value another request wrote outside the store: the
\* court name its scraper hands to the generator is the court of its own request,
\* in every interleaving.
C12_NoCrossRequestState ==
    \A r \in Requests :
        reqs[r].court_name # "" => reqs[r].court_name = reqs[r].court

====
